---- MODULE Spec2Model ----
(***************************************************************************)
(* Model of the agentic sampling loop of mac_computer_use (src/loop.py)    *)
(* and of the ToolResult value type (src/tools/base.py).                   *)
(*                                                                         *)
(* Python values are represented as follows.                               *)
(*   str | None      a sequence of length <= 1: <<>> is None, <<s>> is s   *)
(*   list | str      a record [kind |-> "list", items |-> <<...>>] or      *)
(*                   [kind |-> "str", text |-> s]                          *)
(*   dict            a record with the dictionary's keys                   *)
(***************************************************************************)
EXTENDS Integers, Sequences, FiniteSets, TLC

VARIABLES
    messages,                   \* the history list, mutated in place
    provider,                   \* APIProvider of this run
    model,                      \* the local variable model of sampling_loop
    only_n_most_recent_images,  \* the image cap, NONE when not configured
    pc,                         \* position of the control flow
    content_blocks,             \* blocks of the response being processed
    idx,                        \* index of the block the for loop is at
    tool_result_content,        \* tool-result blocks accumulated this turn
    calls,                      \* number of provider calls made so far
    trace,                      \* observer and tool invocations, in order
    init_len,                   \* length of the history passed by the caller
    old_messages,               \* argument history of the function under test
    images_to_keep,             \* argument of the image filter
    min_removal_threshold,      \* argument of the image filter
    result,                     \* ToolResult argument of the conversion
    tool_use_id,                \* id argument of the conversion
    api_tool_result,            \* value returned by the conversion
    other,                      \* right operand of ToolResult.__add__
    combined,                   \* outcome of ToolResult.__add__
    gemini_messages,            \* the history in Gemini format
    parameters,                 \* tool parameter schema given to convert_params
    converted_parameters        \* outcome of convert_params

vars == <<messages, provider, model, only_n_most_recent_images, pc, content_blocks,
          idx, tool_result_content, calls, trace, init_len, old_messages,
          images_to_keep, min_removal_threshold, result, tool_use_id,
          api_tool_result, other, combined, gemini_messages, parameters,
          converted_parameters>>

loop_vars == <<provider, model, only_n_most_recent_images, content_blocks, idx,
               tool_result_content, calls, trace, init_len>>

filter_args == <<old_messages, images_to_keep, min_removal_threshold>>

convert_args == <<result, tool_use_id>>

combine_vars == <<other, combined>>

schema_vars == <<parameters, converted_parameters>>

\* the variables of the specifications of single functions
convert_vars == <<convert_args, api_tool_result, combine_vars, gemini_messages,
                  schema_vars>>

(***************************************************************************)
(* Bounds of the model.                                                    *)
(***************************************************************************)
MaxTokens == 5      \* tokens of a history given to the image filter
MaxKeep == 1        \* largest images_to_keep tried
MaxChunk == 2       \* largest min_removal_threshold tried
MaxCalls == 3       \* provider calls of one run of sampling_loop
MaxRespBlocks == 2  \* content blocks of one Anthropic response
MaxToolCalls == 2   \* function calls of one Gemini response
MaxRunBlocks == 3   \* content blocks of all responses of one run

(***************************************************************************)
(* Python values.                                                          *)
(***************************************************************************)
None == <<>>

Some(s) == <<s>>

\* Python truthiness of a str | None field
Truthy(field) == field # None /\ field[1] # ""

ListContent(items) == [kind |-> "list", items |-> items]

StrContent(text) == [kind |-> "str", text |-> text]

IsList(content) == content.kind = "list"

TextEntry(text) == [type |-> "text", text |-> text]

ImageEntry(data) ==
    [type |-> "image",
     source |-> [type |-> "base64", media_type |-> "image/png", data |-> data]]

RECURSIVE SumSeq(_)
SumSeq(s) == IF s = <<>> THEN 0 ELSE Head(s) + SumSeq(Tail(s))

RECURSIVE Flatten(_)
Flatten(ss) == IF ss = <<>> THEN <<>> ELSE Head(ss) \o Flatten(Tail(ss))

(***************************************************************************)
(* _maybe_filter_to_n_most_recent_images                                   *)
(***************************************************************************)

RECURSIVE Reverse(_)
Reverse(s) == IF s = <<>> THEN <<>> ELSE Reverse(Tail(s)) \o <<Head(s)>>

\* the tool_result items of one message, as positions <<m, b>>
RECURSIVE ToolResultsOfMessage(_, _, _)
ToolResultsOfMessage(msgs, m, b) ==
    LET items == IF IsList(msgs[m].content) THEN msgs[m].content.items ELSE <<>>
    IN  IF b > Len(items) THEN <<>>
        ELSE (IF items[b].type = "tool_result" THEN << <<m, b>> >> ELSE <<>>)
             \o ToolResultsOfMessage(msgs, m, b + 1)

\* mutant: the blocks are collected newest first
tool_result_blocks_newest_first(msgs) ==
    Reverse(Flatten([m \in 1..Len(msgs) |-> ToolResultsOfMessage(msgs, m, 1)]))

\* tool_result_blocks: every tool_result item of the history, in history order
tool_result_blocks(msgs) ==
    Flatten([m \in 1..Len(msgs) |-> ToolResultsOfMessage(msgs, m, 1)])

BlockAt(msgs, p) == msgs[p[1]].content.items[p[2]]

\* iterating a str content yields characters, none of which is a dict
ContentEntries(block) ==
    IF IsList(block.content) THEN block.content.items ELSE <<>>

ImageCount(entries) ==
    Cardinality({e \in 1..Len(entries) : entries[e].type = "image"})

total_images(msgs) ==
    LET trb == tool_result_blocks(msgs)
    IN  SumSeq([p \in 1..Len(trb) |-> ImageCount(ContentEntries(BlockAt(msgs, trb[p])))])

\* mutant: the chunk rounding is left out
images_to_remove_unrounded(total, keep, threshold) == total - keep

\* images_to_remove after the chunk rounding (Python % has the sign of the divisor)
images_to_remove(total, keep, threshold) ==
    (total - keep) - ((total - keep) % threshold)

\* mutant: the inner loop drops entries of any type while the budget lasts
RECURSIVE FilterContentAnyType(_, _)
FilterContentAnyType(entries, n) ==
    IF entries = <<>> THEN [new_content |-> <<>>, left |-> n]
    ELSE IF n > 0
         THEN FilterContentAnyType(Tail(entries),
                                   IF Head(entries).type = "image" THEN n - 1 ELSE n)
         ELSE LET rest == FilterContentAnyType(Tail(entries), n)
              IN  [new_content |-> <<Head(entries)>> \o rest.new_content,
                   left |-> rest.left]

\* the inner loop over one content list: new_content and the remaining budget
RECURSIVE FilterContent(_, _)
FilterContent(entries, n) ==
    IF entries = <<>> THEN [new_content |-> <<>>, left |-> n]
    ELSE IF Head(entries).type = "image" /\ n > 0
         THEN FilterContent(Tail(entries), n - 1)
         ELSE LET rest == FilterContent(Tail(entries), n)
              IN  [new_content |-> <<Head(entries)>> \o rest.new_content,
                   left |-> rest.left]

\* the outer loop over tool_result_blocks
RECURSIVE FilterBlocks(_, _, _)
FilterBlocks(msgs, trb, n) ==
    IF trb = <<>> THEN msgs
    ELSE LET p == Head(trb)
             block == BlockAt(msgs, p)
         IN  IF IsList(block.content)
             THEN LET r == FilterContent(block.content.items, n)
                  IN  FilterBlocks(
                          [msgs EXCEPT ![p[1]].content.items[p[2]].content.items
                                           = r.new_content],
                          Tail(trb), r.left)
             ELSE FilterBlocks(msgs, Tail(trb), n)

maybe_filter_to_n_most_recent_images(msgs, keep, threshold) ==
    FilterBlocks(msgs, tool_result_blocks(msgs),
                 images_to_remove(total_images(msgs), keep, threshold))

(***************************************************************************)
(* _make_api_tool_result and _maybe_prepend_system_tool_result             *)
(***************************************************************************)

\* mutant: the system note is never prepended
maybe_prepend_nothing(res, result_text) == result_text

maybe_prepend_system_tool_result(res, result_text) ==
    IF Truthy(res.system)
    THEN "<system>" \o res.system[1] \o "</system>\n" \o result_text
    ELSE result_text

\* mutant: the image entry is put before the text entry
make_api_tool_result_image_first(res, id) ==
    [type |-> "tool_result",
     content |->
        IF Truthy(res.error)
        THEN StrContent(maybe_prepend_system_tool_result(res, res.error[1]))
        ELSE ListContent(
                (IF Truthy(res.base64_image)
                 THEN <<ImageEntry(res.base64_image[1])>>
                 ELSE <<>>)
                \o (IF Truthy(res.output)
                    THEN <<TextEntry(maybe_prepend_system_tool_result(res, res.output[1]))>>
                    ELSE <<>>)),
     tool_use_id |-> id,
     is_error |-> Truthy(res.error)]

\* mutant: the error flag is never raised
make_api_tool_result_never_error(res, id) ==
    [type |-> "tool_result",
     content |->
        IF Truthy(res.error)
        THEN StrContent(maybe_prepend_system_tool_result(res, res.error[1]))
        ELSE ListContent(
                (IF Truthy(res.output)
                 THEN <<TextEntry(maybe_prepend_system_tool_result(res, res.output[1]))>>
                 ELSE <<>>)
                \o (IF Truthy(res.base64_image)
                    THEN <<ImageEntry(res.base64_image[1])>>
                    ELSE <<>>)),
     tool_use_id |-> id,
     is_error |-> FALSE]

make_api_tool_result(res, id) ==
    [type |-> "tool_result",
     content |->
        IF Truthy(res.error)
        THEN StrContent(maybe_prepend_system_tool_result(res, res.error[1]))
        ELSE ListContent(
                (IF Truthy(res.output)
                 THEN <<TextEntry(maybe_prepend_system_tool_result(res, res.output[1]))>>
                 ELSE <<>>)
                \o (IF Truthy(res.base64_image)
                    THEN <<ImageEntry(res.base64_image[1])>>
                    ELSE <<>>)),
     tool_use_id |-> id,
     is_error |-> Truthy(res.error)]

(***************************************************************************)
(* Histories given to the image filter.  A history is written as a string  *)
(* of tokens read left to right after a first user message with string     *)
(* content:                                                                *)
(*   "message"  a new message with an empty content list                   *)
(*   "block"    a new tool_result block with an empty content list         *)
(*   "error"    a new tool_result block with string content                *)
(*   "picture"  a new image block outside any tool result                  *)
(*   "text", "image"   an entry of the tool_result block written last, or  *)
(*              of a new one when the last block cannot take entries       *)
(* Every text and image carries the index of its token, so that all        *)
(* entries of a history are distinct.                                      *)
(***************************************************************************)
Tokens == {"message", "block", "error", "picture", "text", "image"}

RoleAt(m) == IF m % 2 = 1 THEN "user" ELSE "assistant"

FirstMessage == [role |-> "user", content |-> StrContent("list files")]

EmptyToolResult(i) ==
    [type |-> "tool_result", content |-> ListContent(<<>>),
     tool_use_id |-> "id_" \o ToString(i), is_error |-> FALSE]

ErrorToolResult(i) ==
    [type |-> "tool_result", content |-> StrContent("err_" \o ToString(i)),
     tool_use_id |-> "id_" \o ToString(i), is_error |-> TRUE]

BuildEntry(token, i) ==
    IF token = "image" THEN ImageEntry("img_" \o ToString(i))
    ELSE TextEntry("txt_" \o ToString(i))

\* the history with a new, empty message at its end when the last message
\* has string content
WithListMessage(hist) ==
    IF hist[Len(hist)].content.kind = "list" THEN hist
    ELSE Append(hist, [role |-> RoleAt(Len(hist) + 1), content |-> ListContent(<<>>)])

AddBlock(hist, block) ==
    LET h == WithListMessage(hist)
    IN  [h EXCEPT ![Len(h)].content.items = Append(@, block)]

\* the history with a tool_result block that takes entries as its last block
WithOpenBlock(hist, i) ==
    LET h == WithListMessage(hist)
        items == h[Len(h)].content.items
    IN  IF /\ items # <<>>
           /\ items[Len(items)].type = "tool_result"
           /\ items[Len(items)].content.kind = "list"
        THEN h
        ELSE AddBlock(h, EmptyToolResult(i))

AddEntry(hist, entry, i) ==
    LET h == WithOpenBlock(hist, i)
        b == Len(h[Len(h)].content.items)
    IN  [h EXCEPT ![Len(h)].content.items[b].content.items = Append(@, entry)]

AddToken(hist, token, i) ==
    CASE token = "message" ->
            Append(hist, [role |-> RoleAt(Len(hist) + 1), content |-> ListContent(<<>>)])
      [] token = "block" -> AddBlock(hist, EmptyToolResult(i))
      [] token = "error" -> AddBlock(hist, ErrorToolResult(i))
      [] token = "picture" -> AddBlock(hist, ImageEntry("pic_" \o ToString(i)))
      [] OTHER -> AddEntry(hist, BuildEntry(token, i), i)

RECURSIVE BuildFrom(_, _, _)
BuildFrom(hist, tokens, i) ==
    IF i > Len(tokens) THEN hist
    ELSE BuildFrom(AddToken(hist, tokens[i], i), tokens, i + 1)

BuildHistory(tokens) == BuildFrom(<<FirstMessage>>, tokens, 1)

\* a value of the variable model: the name the caller passed (a str) ...
ModelName(name) == [type |-> "str", value |-> name]

\* ... or the client object that line 136 of loop.py binds to it
GenerativeModel(model_name) == [type |-> "GenerativeModel", model_name |-> model_name]

NoResult == [output |-> None, error |-> None, base64_image |-> None, system |-> None]

NoBlock == [type |-> "none"]

\* values of the variables a specification does not use
LoopIdle ==
    /\ provider = "anthropic"
    /\ model = ModelName("")
    /\ only_n_most_recent_images = None
    /\ content_blocks = <<>>
    /\ idx = 0
    /\ tool_result_content = <<>>
    /\ calls = 0
    /\ trace = <<>>
    /\ init_len = 0

FilterIdle ==
    /\ old_messages = <<>>
    /\ images_to_keep = 0
    /\ min_removal_threshold = 1

NotCalled == [called |-> FALSE]

CombineIdle ==
    /\ other = NoResult
    /\ combined = NotCalled

ProjectIdle == gemini_messages = <<>>

SchemaIdle ==
    /\ parameters = NotCalled
    /\ converted_parameters = NotCalled

ConvertIdle ==
    /\ result = NoResult
    /\ tool_use_id = ""
    /\ api_tool_result = NoBlock
    /\ CombineIdle
    /\ ProjectIdle
    /\ SchemaIdle

(***************************************************************************)
(* Specification of the image filter: one call on an arbitrary history.    *)
(***************************************************************************)
InitFilter ==
    /\ \E n \in 0..MaxTokens : \E tokens \in [1..n -> Tokens] :
          messages = BuildHistory(tokens)
    /\ old_messages = messages
    /\ images_to_keep = 0
    /\ min_removal_threshold = 1
    /\ pc = "filter_call"
    /\ LoopIdle
    /\ ConvertIdle

\* one call of the filter, with any cap and any chunk threshold
FilterCall ==
    /\ pc = "filter_call"
    /\ \E keep \in 0..MaxKeep : \E threshold \in 1..MaxChunk :
          /\ images_to_keep' = keep
          /\ min_removal_threshold' = threshold
          /\ messages' = maybe_filter_to_n_most_recent_images(messages, keep, threshold)
    /\ pc' = "filter_done"
    /\ UNCHANGED <<loop_vars, old_messages, convert_vars>>

NextFilter == FilterCall

SpecFilter == InitFilter /\ [][NextFilter]_vars

(***************************************************************************)
(* Specification of the conversion: one call on an arbitrary ToolResult.   *)
(***************************************************************************)
Opt(s) == {None, Some(""), Some(s)}

ToolResults ==
    [output : Opt("ok"), error : Opt("boom"), base64_image : Opt("iVBOR"),
     system : Opt("note")]

InitConvert ==
    /\ result \in ToolResults
    /\ tool_use_id \in {"t1", "t2"}
    /\ api_tool_result = NoBlock
    /\ CombineIdle
    /\ ProjectIdle
    /\ SchemaIdle
    /\ pc = "convert_call"
    /\ messages = <<>>
    /\ FilterIdle
    /\ LoopIdle

ConvertCall ==
    /\ pc = "convert_call"
    /\ api_tool_result' = make_api_tool_result(result, tool_use_id)
    /\ pc' = "convert_done"
    /\ UNCHANGED <<messages, loop_vars, filter_args, convert_args, combine_vars,
                   gemini_messages, schema_vars>>

NextConvert == ConvertCall

SpecConvert == InitConvert /\ [][NextConvert]_vars

(***************************************************************************)
(* sampling_loop                                                           *)
(***************************************************************************)

\* default of the parameter min_removal_threshold
MinRemovalThreshold == 10

\* the branch of line 133 separates GEMINI from the three other providers,
\* which differ only in the client they construct
APIProvider == {"anthropic", "gemini"}

PROVIDER_TO_DEFAULT_MODEL_NAME(p) ==
    IF p = "gemini" THEN "gemini-exp-1206" ELSE "claude-3-5-sonnet-20241022"

\* Python truthiness of an int | None parameter
IntTruthy(n) == n # None /\ n[1] # 0

\* names the ToolCollection of line 120 resolves
RegisteredTools == {"computer", "bash", "str_replace_editor"}

\* names a model response may ask for: a registered one and an unknown one
RequestedTools == {"bash", "nope"}

ToolResult(output, error, base64_image, system) ==
    [output |-> output, error |-> error, base64_image |-> base64_image,
     system |-> system]

\* what a registered tool may return when it does not fail
ToolOutcomes ==
    {ToolResult(Some("a.txt"), None, None, None),
     ToolResult(Some("a.txt"), None, Some("iVBOR"), None)}

\* ToolCollection.run: the outcome of dispatching one tool call.  A name
\* that is not registered and a failure raised by the tool both come back
\* as a ToolResult with only error set; nothing is raised to the loop.
ToolCollectionRun(name) ==
    IF name \notin RegisteredTools
    THEN {[failure |-> "not_found",
           result |-> ToolResult(None, Some("ToolNotFound: " \o name), None, None)]}
    ELSE {[failure |-> "none", result |-> r] : r \in ToolOutcomes}
         \cup {[failure |-> "raised",
                result |-> ToolResult(None, Some("boom"), None, None)]}

TextBlock(text) == [type |-> "text", text |-> text]

ToolUseBlock(id, name) ==
    [type |-> "tool_use", id |-> id, name |-> name, input |-> "{}"]

AssistantMessage(blocks) == [role |-> "assistant", content |-> ListContent(blocks)]

\* mutant: the tool results are appended under the assistant role
UserMessageAsAssistant(blocks) == [content |-> ListContent(blocks), role |-> "assistant"]

UserMessage(blocks) == [content |-> ListContent(blocks), role |-> "user"]

\* mutant: the filter also forgets the oldest message of the history
FilteredHistoryDroppingOldest(msgs, cap) ==
    IF IntTruthy(cap)
    THEN Tail(maybe_filter_to_n_most_recent_images(msgs, cap[1], MinRemovalThreshold))
    ELSE msgs

\* line 130-131: the image filter runs when the cap is truthy
FilteredHistory(msgs, cap) ==
    IF IntTruthy(cap)
    THEN maybe_filter_to_n_most_recent_images(msgs, cap[1], MinRemovalThreshold)
    ELSE msgs

\* response.content of the Anthropic API: text and tool_use blocks in any
\* order, every tool_use carrying an id the API issues once
AnthropicBlock(kind, call, j) ==
    IF kind = "text" THEN TextBlock("step " \o ToString(call))
    ELSE ToolUseBlock("toolu_" \o ToString(call) \o "_" \o ToString(j), kind)

AnthropicResponses(call) ==
    {[j \in 1..Len(kinds) |-> AnthropicBlock(kinds[j], call, j)] :
        kinds \in UNION {[1..n -> {"text"} \cup RequestedTools] :
                            n \in 0..MaxRespBlocks}}

\* a Gemini response: response.text and candidates[0].function_calls
GeminiResponses ==
    {[text |-> t, function_calls |-> fc] :
        t \in {"", "hello"},
        fc \in UNION {[1..n -> RequestedTools] : n \in 0..MaxToolCalls}}

\* lines 175-189: the Gemini response in the common block format
GeminiContentBlocks(response, msgs) ==
    (IF response.text # "" THEN <<TextBlock(response.text)>> ELSE <<>>)
    \o [j \in 1..Len(response.function_calls) |->
           ToolUseBlock("tool_" \o ToString(Len(msgs)), response.function_calls[j])]

\* mutant: a turn with a single tool result also ends the loop
ShouldReturnOnFewResults(trc) == Len(trc) <= 1

\* the content blocks of the responses received so far in this run
RunBlocks(msgs, first) ==
    SumSeq([m \in 1..(Len(msgs) - first) |->
               IF msgs[first + m].role = "assistant"
               THEN Len(msgs[first + m].content.items) ELSE 0])

\* line 249
ShouldReturn(trc) == trc = <<>>

\* mutant: the newest result block is put in front
AccumulateInFront(trc, block) == <<block>> \o trc

\* lines 204-206 and 244-246: the result block joins the accumulated ones
Accumulate(trc, block) == Append(trc, block)

(***************************************************************************)
(* Histories the caller may pass: a new task, alone or after an earlier    *)
(* run of the loop that left tool results with screenshots behind.         *)
(***************************************************************************)
PriorImages == {0, MinRemovalThreshold}

PriorToolResult(j) ==
    make_api_tool_result(
        ToolResult(Some("shot " \o ToString(j)), None, Some("png" \o ToString(j)), None),
        "prev_" \o ToString(j))

PriorHistory(n) ==
    IF n = 0 THEN <<>>
    ELSE << [role |-> "user", content |-> StrContent("first task")],
            AssistantMessage([j \in 1..n |-> ToolUseBlock("prev_" \o ToString(j), "computer")]),
            UserMessage([j \in 1..n |-> PriorToolResult(j)]),
            AssistantMessage(<<TextBlock("done")>>) >>

InitialHistories ==
    {PriorHistory(n) \o << [role |-> "user", content |-> StrContent("list files")] >> :
        n \in PriorImages}

Init ==
    /\ messages \in InitialHistories
    /\ init_len = Len(messages)
    /\ provider \in APIProvider
    /\ model = ModelName(PROVIDER_TO_DEFAULT_MODEL_NAME(provider))
    /\ only_n_most_recent_images \in {None, Some(0), Some(1)}
    /\ pc = "top"
    /\ content_blocks = <<>>
    /\ idx = 0
    /\ tool_result_content = <<>>
    /\ calls = 0
    /\ trace = <<>>
    /\ FilterIdle
    /\ ConvertIdle

\* line 115: the default of the max_tokens parameter
max_tokens == 4096

\* line 108: the suffix the caller passes
system_prompt_suffix == "be brief"

\* lines 125-127: the system prompt, built once before the loop
system ==
    "SYSTEM_PROMPT" \o (IF system_prompt_suffix # ""
                        THEN " " \o system_prompt_suffix ELSE "")

\* lines 136, 166-172 and 218-225: the request of provider call n; model_name
\* is what the variable model holds when the request is built
ApiCallEvent(n, model_name) ==
    [event |-> "api_call", call |-> n, model |-> model_name, system |-> system,
     max_tokens |-> max_tokens]

\* mutant: a failed call leaves an assistant message behind
FailedCallHistoryWithAssistant(msgs, cap) ==
    Append(FilteredHistory(msgs, cap), AssistantMessage(<<>>))

\* lines 130-131: the exception leaves the loop before line 190 or 230
\* appends, so a failed call leaves the filtered history
FailedCallHistory(msgs, cap) == FilteredHistory(msgs, cap)

\* mutant: the tool-output observer is called before the tool has returned
ToolReturnEventsOutputFirst(call, block, outcome, id) ==
    <<[event |-> "tool_output", call |-> call, block |-> block,
       result |-> outcome.result, id |-> id],
      [event |-> "tool_return", call |-> call, block |-> block,
       failure |-> outcome.failure, result |-> outcome.result]>>

\* lines 200-207 and 240-247: the tool returns, then its result goes to the
\* tool-output observer with the id of the block
ToolReturnEvents(call, block, outcome, id) ==
    <<[event |-> "tool_return", call |-> call, block |-> block,
       failure |-> outcome.failure, result |-> outcome.result],
      [event |-> "tool_output", call |-> call, block |-> block,
       result |-> outcome.result, id |-> id]>>

\* lines 130-131 and 210-233: one Anthropic model call that succeeds
CallAnthropic ==
    /\ pc = "top"
    /\ provider # "gemini"
    /\ calls < MaxCalls
    /\ LET filtered == FilteredHistory(messages, only_n_most_recent_images)
           received == RunBlocks(messages, init_len)
       IN  \E response \in AnthropicResponses(calls + 1) :
              /\ received + Len(response) <= MaxRunBlocks
              /\ messages' = Append(filtered, AssistantMessage(response))
              /\ content_blocks' = response
    /\ trace' = trace \o <<ApiCallEvent(calls + 1, model),
                           [event |-> "api_response", call |-> calls + 1]>>
    /\ calls' = calls + 1
    /\ idx' = 1
    /\ tool_result_content' = <<>>
    /\ pc' = "blocks"
    /\ UNCHANGED <<provider, model, only_n_most_recent_images, init_len,
                   filter_args, convert_vars>>

\* lines 130-131 and 218-228: the Anthropic call raises, in create() or,
\* after the raw response went to the observer, in parse()
AnthropicCallFails ==
    /\ pc = "top"
    /\ provider # "gemini"
    /\ calls < MaxCalls
    /\ messages' = FailedCallHistory(messages, only_n_most_recent_images)
    /\ \E stage \in {"create", "parse"} :
          trace' = trace \o <<ApiCallEvent(calls + 1, model)>>
                         \o (IF stage = "parse"
                             THEN <<[event |-> "api_response", call |-> calls + 1]>>
                             ELSE <<>>)
    /\ calls' = calls + 1
    /\ pc' = "raised"
    /\ UNCHANGED <<provider, model, only_n_most_recent_images, content_blocks, idx,
                   tool_result_content, init_len, filter_args, convert_vars>>

\* lines 130-194: one Gemini model call that succeeds
CallGemini ==
    /\ pc = "top"
    /\ provider = "gemini"
    /\ calls < MaxCalls
    /\ model' = GenerativeModel(model)
    /\ LET filtered == FilteredHistory(messages, only_n_most_recent_images)
           received == RunBlocks(messages, init_len)
       IN  \E response \in GeminiResponses :
              LET blocks == GeminiContentBlocks(response, filtered)
              IN  /\ received + Len(blocks) <= MaxRunBlocks
                  /\ messages' = Append(filtered, AssistantMessage(blocks))
                  /\ content_blocks' = blocks
    /\ trace' = trace \o <<ApiCallEvent(calls + 1, model)>>
    /\ calls' = calls + 1
    /\ idx' = 1
    /\ tool_result_content' = <<>>
    /\ pc' = "blocks"
    /\ UNCHANGED <<provider, only_n_most_recent_images, init_len,
                   filter_args, convert_vars>>

\* lines 130-189: the Gemini call or the decoding of its response raises
GeminiCallFails ==
    /\ pc = "top"
    /\ provider = "gemini"
    /\ calls < MaxCalls
    /\ model' = GenerativeModel(model)
    /\ messages' = FailedCallHistory(messages, only_n_most_recent_images)
    /\ trace' = trace \o <<ApiCallEvent(calls + 1, model)>>
    /\ calls' = calls + 1
    /\ pc' = "raised"
    /\ UNCHANGED <<provider, only_n_most_recent_images, content_blocks, idx,
                   tool_result_content, init_len, filter_args, convert_vars>>

\* lines 197-203 and 236-243: the next block goes to the output observer
\* and, when it is a tool_use, its tool is started
ProcessBlock ==
    /\ pc = "blocks"
    /\ idx <= Len(content_blocks)
    /\ LET block == content_blocks[idx]
           shown == [event |-> "output", call |-> calls, block |-> idx]
       IN  IF block.type = "tool_use"
           THEN /\ trace' = trace \o <<shown,
                                       [event |-> "tool_call", call |-> calls,
                                        block |-> idx, name |-> block.name,
                                        id |-> block.id]>>
                /\ pc' = "tool"
                /\ idx' = idx
           ELSE /\ trace' = trace \o <<shown>>
                /\ pc' = "blocks"
                /\ idx' = idx + 1
    /\ UNCHANGED <<messages, provider, model, only_n_most_recent_images,
                   content_blocks, tool_result_content, calls, init_len,
                   filter_args, convert_vars>>

\* lines 200-207 and 240-247: the awaited tool run comes back, its result is
\* converted and accumulated and goes to the tool-output observer
ToolReturns ==
    /\ pc = "tool"
    /\ LET block == content_blocks[idx]
       IN  \E outcome \in ToolCollectionRun(block.name) :
              /\ tool_result_content' =
                    Accumulate(tool_result_content,
                               make_api_tool_result(outcome.result, block.id))
              /\ trace' = trace \o ToolReturnEvents(calls, idx, outcome, block.id)
    /\ idx' = idx + 1
    /\ pc' = "blocks"
    /\ UNCHANGED <<messages, provider, model, only_n_most_recent_images,
                   content_blocks, calls, init_len, filter_args, convert_vars>>

\* lines 249-250: no tool result was accumulated, the history is returned
ReturnHistory ==
    /\ pc = "blocks"
    /\ idx > Len(content_blocks)
    /\ ShouldReturn(tool_result_content)
    /\ pc' = "returned"
    /\ UNCHANGED <<messages, loop_vars, filter_args, convert_vars>>

\* line 252: the tool results become the next user message
AppendToolResults ==
    /\ pc = "blocks"
    /\ idx > Len(content_blocks)
    /\ ~ShouldReturn(tool_result_content)
    /\ messages' = Append(messages, UserMessage(tool_result_content))
    /\ pc' = "top"
    /\ UNCHANGED <<loop_vars, filter_args, convert_vars>>

Next ==
    \/ CallAnthropic
    \/ AnthropicCallFails
    \/ CallGemini
    \/ GeminiCallFails
    \/ ProcessBlock
    \/ ToolReturns
    \/ ReturnHistory
    \/ AppendToolResults

Spec == Init /\ [][Next]_vars

(***************************************************************************)
(* ToolResult.__add__                                                      *)
(***************************************************************************)

\* mutant: image data is concatenated like the other fields
combine_fields_always_concatenate(field, other_field, concatenate) ==
    IF Truthy(field) /\ Truthy(other_field)
    THEN [raised |-> FALSE, value |-> Some(field[1] \o other_field[1])]
    ELSE [raised |-> FALSE, value |-> IF Truthy(field) THEN field ELSE other_field]

\* mutant: the right value is put before the left one
combine_fields_right_first(field, other_field, concatenate) ==
    IF Truthy(field) /\ Truthy(other_field)
    THEN IF concatenate
         THEN [raised |-> FALSE, value |-> Some(other_field[1] \o field[1])]
         ELSE [raised |-> TRUE]
    ELSE [raised |-> FALSE, value |-> IF Truthy(field) THEN field ELSE other_field]

\* combine_fields: the combined field, or the ValueError of line 94
combine_fields(field, other_field, concatenate) ==
    IF Truthy(field) /\ Truthy(other_field)
    THEN IF concatenate
         THEN [raised |-> FALSE, value |-> Some(field[1] \o other_field[1])]
         ELSE [raised |-> TRUE]
    ELSE [raised |-> FALSE, value |-> IF Truthy(field) THEN field ELSE other_field]

\* self + other: a new ToolResult, or the error raised for base64_image
ToolResultAdd(self, oth) ==
    LET new_output == combine_fields(self.output, oth.output, TRUE)
        new_error == combine_fields(self.error, oth.error, TRUE)
        new_image == combine_fields(self.base64_image, oth.base64_image, FALSE)
        new_system == combine_fields(self.system, oth.system, TRUE)
    IN  IF new_output.raised \/ new_error.raised \/ new_image.raised
           \/ new_system.raised
        THEN [called |-> TRUE, raised |-> TRUE]
        ELSE [called |-> TRUE, raised |-> FALSE,
              value |-> ToolResult(new_output.value, new_error.value,
                                   new_image.value, new_system.value)]

\* right operands, with texts that differ from those of the left operands
OtherResults ==
    [output : Opt("more"), error : Opt("bang"), base64_image : Opt("R0lGO"),
     system : Opt("hint")]

InitCombine ==
    /\ result \in ToolResults
    /\ other \in OtherResults
    /\ combined = NotCalled
    /\ tool_use_id = ""
    /\ api_tool_result = NoBlock
    /\ ProjectIdle
    /\ SchemaIdle
    /\ pc = "add_call"
    /\ messages = <<>>
    /\ FilterIdle
    /\ LoopIdle

\* result + other; the operands are frozen and stay as they are
AddCall ==
    /\ pc = "add_call"
    /\ combined' = ToolResultAdd(result, other)
    /\ pc' = "add_done"
    /\ UNCHANGED <<messages, loop_vars, filter_args, convert_args, api_tool_result,
                   other, gemini_messages, schema_vars>>

NextCombine == AddCall

SpecCombine == InitCombine /\ [][NextCombine]_vars

(***************************************************************************)
(* The projection of the history onto Gemini's chat format                 *)
(* (sampling_loop, lines 141-164).                                         *)
(***************************************************************************)
MaxHistory == 3

RECURSIVE Join(_, _)
\* sep.join(texts)
Join(sep, texts) ==
    IF texts = <<>> THEN ""
    ELSE IF Len(texts) = 1 THEN texts[1]
    ELSE texts[1] \o sep \o Join(sep, Tail(texts))

\* lines 148-152 and 159-163: the text of the text-typed blocks, joined
text_content(content) ==
    LET text_blocks == SelectSeq(content.items, LAMBDA block : block.type = "text")
    IN  Join("\n", [k \in 1..Len(text_blocks) |-> text_blocks[k].text])

\* lines 144-164: what one message adds to gemini_messages
GeminiMessagesOf(msg) ==
    IF msg.role = "user"
    THEN IF IsList(msg.content)
         THEN <<[role |-> "user", parts |-> <<text_content(msg.content)>>]>>
         ELSE <<[role |-> "user", parts |-> <<msg.content.text>>]>>
    ELSE IF msg.role = "assistant"
    THEN IF IsList(msg.content)
         THEN <<[role |-> "model", parts |-> <<text_content(msg.content)>>]>>
         ELSE <<>>
    ELSE <<>>

RECURSIVE ToGeminiMessages(_)
\* lines 142-164: the loop over the history
ToGeminiMessages(msgs) ==
    IF msgs = <<>> THEN <<>>
    ELSE GeminiMessagesOf(Head(msgs)) \o ToGeminiMessages(Tail(msgs))

\* the messages a history is built of
HistoryMessages ==
    LET image_result == make_api_tool_result(
                            ToolResult(Some("ok"), None, Some("iVBOR"), None), "toolu_1")
        Message(role, content) == [role |-> role, content |-> content]
    IN  { Message("user", StrContent("list files")),
          Message("user", ListContent(<<TextBlock("see"), TextBlock("this")>>)),
          Message("user", ListContent(<<image_result>>)),
          Message("user", ListContent(<<image_result, TextBlock("next")>>)),
          Message("assistant", StrContent("sure")),
          AssistantMessage(<<TextBlock("running"), ToolUseBlock("toolu_1", "bash")>>),
          AssistantMessage(<<ToolUseBlock("toolu_1", "bash")>>),
          AssistantMessage(<<>>) }

InitProject ==
    /\ \E n \in 1..MaxHistory : messages \in [1..n -> HistoryMessages]
    /\ gemini_messages = <<>>
    /\ pc = "project_call"
    /\ result = NoResult
    /\ tool_use_id = ""
    /\ api_tool_result = NoBlock
    /\ CombineIdle
    /\ SchemaIdle
    /\ FilterIdle
    /\ LoopIdle

Project ==
    /\ pc = "project_call"
    /\ gemini_messages' = ToGeminiMessages(messages)
    /\ pc' = "project_done"
    /\ UNCHANGED <<messages, loop_vars, filter_args, convert_args, api_tool_result,
                   combine_vars, schema_vars>>

NextProject == Project

SpecProject == InitProject /\ [][NextProject]_vars

(***************************************************************************)
(* The schema transform of to_gemini_tool (tools/base.py, lines 35-66).    *)
(* A dict is a function on its keys.  A required value is the list of the  *)
(* schema or the flag the transform stores in its place.                   *)
(***************************************************************************)
PyList(names) == [list |-> names]

PyTrue == [bool |-> TRUE]

EmptyDict == <<>>

\* d[key] = value
WithKey(d, key, value) ==
    [k \in DOMAIN d \cup {key} |-> IF k = key THEN value ELSE d[k]]

\* lines 49-53
type_mapping(params_type) ==
    CASE params_type = "integer" -> "number"
      [] params_type = "array" -> "list"
      [] OTHER -> params_type

Returned(value) == [called |-> TRUE, raised |-> FALSE, value |-> value]

Raised == [called |-> TRUE, raised |-> TRUE]

RECURSIVE convert_params(_)
\* lines 35-64; 'prop_name in required' raises TypeError when required is
\* not a list
convert_params(params) ==
    IF "type" \notin DOMAIN params THEN Returned(params)
    ELSE LET required == IF "required" \in DOMAIN params
                         THEN params.required ELSE PyList({})
             properties == IF "properties" \in DOMAIN params
                           THEN params.properties ELSE EmptyDict
         IN  IF DOMAIN properties # {} /\ "list" \notin DOMAIN required
             THEN Raised
             ELSE LET flagged == [prop_name \in DOMAIN properties |->
                                    IF prop_name \in required.list
                                    THEN WithKey(properties[prop_name], "required", PyTrue)
                                    ELSE properties[prop_name]]
                      converted == [prop_name \in DOMAIN flagged |->
                                      convert_params(flagged[prop_name])]
                  IN  IF \E prop_name \in DOMAIN converted : converted[prop_name].raised
                      THEN Raised
                      ELSE Returned(
                             [k \in DOMAIN params |->
                                CASE k = "type" -> type_mapping(params.type)
                                  [] k = "properties" ->
                                       [prop_name \in DOMAIN converted |->
                                           converted[prop_name].value]
                                  [] OTHER -> params[k]])

PropertyNames == {"path", "count"}

NestedNames == {"count"}

LeafSchemas ==
    { [type |-> "integer"], [type |-> "string"], [type |-> "array"],
      [type |-> "array", items |-> [type |-> "integer"]],
      [description |-> "anything"] }

\* the object schemas over the given property names and property schemas
ObjectSchemas(names, schemas) ==
    UNION { UNION { {[type |-> "object", properties |-> properties]}
                    \cup {[type |-> "object", properties |-> properties,
                           required |-> PyList(required)] :
                             required \in SUBSET keys} :
                    properties \in [keys -> schemas] } :
            keys \in SUBSET names \ {{}} }

Schemas ==
    LeafSchemas
    \cup ObjectSchemas(PropertyNames,
                       LeafSchemas \cup ObjectSchemas(NestedNames, LeafSchemas))

InitSchema ==
    /\ parameters \in Schemas
    /\ converted_parameters = NotCalled
    /\ pc = "schema_call"
    /\ messages = <<>>
    /\ result = NoResult
    /\ tool_use_id = ""
    /\ api_tool_result = NoBlock
    /\ CombineIdle
    /\ ProjectIdle
    /\ FilterIdle
    /\ LoopIdle

\* line 66: converted_parameters = convert_params(parameters)
ConvertParams ==
    /\ pc = "schema_call"
    /\ converted_parameters' = convert_params(parameters)
    /\ pc' = "schema_done"
    /\ UNCHANGED <<messages, loop_vars, filter_args, convert_args, api_tool_result,
                   combine_vars, gemini_messages, parameters>>

NextSchema == ConvertParams

SpecSchema == InitSchema /\ [][NextSchema]_vars

(***************************************************************************)
(* Properties of the image filter.                                         *)
(***************************************************************************)

\* the image entries of the tool-result blocks of a history, in history order
ImagesOfBlock(block) ==
    IF block.type = "tool_result" /\ block.content.kind = "list"
    THEN SelectSeq(block.content.items, LAMBDA e : e.type = "image")
    ELSE <<>>

ImagesOfMessage(msg) ==
    IF msg.content.kind = "list"
    THEN Flatten([b \in 1..Len(msg.content.items) |-> ImagesOfBlock(msg.content.items[b])])
    ELSE <<>>

ToolResultImages(msgs) == Flatten([m \in 1..Len(msgs) |-> ImagesOfMessage(msgs[m])])

OriginalTotal == Len(ToolResultImages(old_messages))

NewTotal == Len(ToolResultImages(messages))

Removed == OriginalTotal - NewTotal

Range(s) == {s[i] : i \in 1..Len(s)}

\* C7: one run of the image filter removes a non-negative multiple of the
\* chunk threshold c: (total - k) rounded down to a multiple of c when
\* total > k, and nothing when total <= k.
C7_RemovedIsChunkMultiple ==
    pc = "filter_done" =>
        LET total == OriginalTotal
            removed == total - NewTotal
        IN  /\ removed >= 0
            /\ removed % min_removal_threshold = 0
            /\ total > images_to_keep =>
                  removed = ((total - images_to_keep) \div min_removal_threshold)
                                * min_removal_threshold
            /\ total <= images_to_keep => removed = 0

\* a run where the rounding matters: some images go, fewer than total - k
C7_Witness ==
    /\ pc = "filter_done"
    /\ Removed > 0
    /\ Removed < OriginalTotal - images_to_keep

\* C8: the images removed by one run are a prefix of the list of all
\* tool-result images in history order: what is kept is the newest ones.
C8_OldestRemovedFirst ==
    pc = "filter_done" =>
        LET before == ToolResultImages(old_messages)
            after == ToolResultImages(messages)
        IN  after = SubSeq(before, Len(before) - Len(after) + 1, Len(before))

\* a run that removes images of one message and keeps images of a later one
C8_Witness ==
    /\ pc = "filter_done"
    /\ \E m1 \in 1..Len(messages) : \E m2 \in 1..Len(messages) :
          /\ m1 < m2
          /\ Len(ImagesOfMessage(old_messages[m1])) > Len(ImagesOfMessage(messages[m1]))
          /\ ImagesOfMessage(messages[m2]) # <<>>

EntriesKept(old_block, new_block) ==
    IF old_block.type = "tool_result" /\ old_block.content.kind = "list"
    THEN /\ new_block.type = "tool_result"
         /\ new_block.tool_use_id = old_block.tool_use_id
         /\ new_block.is_error = old_block.is_error
         /\ new_block.content.kind = "list"
         /\ SelectSeq(old_block.content.items, LAMBDA e : e.type # "image")
              = SelectSeq(new_block.content.items, LAMBDA e : e.type # "image")
         /\ SelectSeq(old_block.content.items,
                      LAMBDA e : e \in Range(new_block.content.items))
              = new_block.content.items
    ELSE new_block = old_block

MessageKept(old_msg, new_msg) ==
    /\ new_msg.role = old_msg.role
    /\ new_msg.content.kind = old_msg.content.kind
    /\ IF old_msg.content.kind = "list"
       THEN /\ Len(new_msg.content.items) = Len(old_msg.content.items)
            /\ \A b \in 1..Len(old_msg.content.items) :
                  EntriesKept(old_msg.content.items[b], new_msg.content.items[b])
       ELSE new_msg = old_msg

\* C9: the image filter only removes image entries of tool-result content
\* lists: non-image entries stay, kept entries keep their order, nothing is
\* added, and everything that is not a tool-result block is untouched.
C9_OnlyImagesRemoved ==
    pc = "filter_done" =>
        /\ Len(messages) = Len(old_messages)
        /\ \A m \in 1..Len(old_messages) : MessageKept(old_messages[m], messages[m])

\* a run that removes an image from a block holding a text entry before it,
\* in a history that also has an image block outside any tool result
C9_Witness ==
    /\ pc = "filter_done"
    /\ \E m \in 1..Len(messages) :
          /\ messages[m].content.kind = "list"
          /\ \E b \in 1..Len(messages[m].content.items) :
                LET old_block == old_messages[m].content.items[b]
                IN  /\ old_block.type = "tool_result"
                    /\ old_block.content.kind = "list"
                    /\ Len(old_block.content.items) = 2
                    /\ old_block.content.items[1].type = "text"
                    /\ messages[m].content.items[b].content.items
                          = <<old_block.content.items[1]>>
          /\ \E b \in 1..Len(messages[m].content.items) :
                messages[m].content.items[b].type = "image"

(***************************************************************************)
(* Properties of the loop.                                                 *)
(***************************************************************************)
Last(s) == s[Len(s)]

\* the tool_use blocks of a message, in order
ToolUses(msg) ==
    IF msg.content.kind = "list"
    THEN SelectSeq(msg.content.items, LAMBDA b : b.type = "tool_use")
    ELSE <<>>

\* the indices of the user messages the loop has appended
AppendedUserTurns ==
    {m \in (init_len + 1)..Len(messages) : messages[m].role = "user"}

\* a turn has been dispatched and its results appended: the loop is about to
\* start the next iteration
TurnCompleted == pc = "top" /\ calls > 0

EventsOfCall(kind, n) ==
    SelectSeq(trace, LAMBDA e : e.event = kind /\ e.call = n)

ExactlyOneResultPerToolUse(m) ==
    LET uses == ToolUses(messages[m - 1])
        blocks == messages[m].content.items
    IN  /\ \A b \in 1..Len(blocks) :
              /\ blocks[b].type = "tool_result"
              /\ \E u \in 1..Len(uses) : blocks[b].tool_use_id = uses[u].id
        /\ \A u \in 1..Len(uses) :
              Cardinality({b \in 1..Len(blocks) :
                              blocks[b].tool_use_id = uses[u].id}) = 1

\* C1: after an iteration that dispatched tools, every ToolUse id of the
\* assistant message has exactly one tool-result block with that id in the
\* user message appended right after it, which holds no other block.
C1_OneResultPerToolUseId ==
    \A m \in AppendedUserTurns : ExactlyOneResultPerToolUse(m)

ToolEvents ==
    SelectSeq(trace, LAMBDA e : e.event \in {"tool_call", "tool_return"})

\* every tool call is followed by its return before the next call, and the
\* calls follow the order of the blocks
OneToolAtATime ==
    LET events == ToolEvents
    IN  /\ \A k \in 1..Len(events) :
              IF k % 2 = 1
              THEN /\ events[k].event = "tool_call"
                   /\ k > 2 =>
                        \/ events[k - 2].call < events[k].call
                        \/ /\ events[k - 2].call = events[k].call
                           /\ events[k - 2].block < events[k].block
              ELSE /\ events[k].event = "tool_return"
                   /\ events[k].call = events[k - 1].call
                   /\ events[k].block = events[k - 1].block
        /\ pc = "tool" <=> Len(events) % 2 = 1

\* the results of the turn just completed are those of its tool_use blocks,
\* position by position
ResultsFollowToolUses ==
    LET uses == ToolUses(messages[Len(messages) - 1])
        started == EventsOfCall("tool_call", calls)
        returned == EventsOfCall("tool_return", calls)
        blocks == Last(messages).content.items
    IN  /\ Len(started) = Len(uses)
        /\ Len(returned) = Len(uses)
        /\ Len(blocks) = Len(uses)
        /\ \A i \in 1..Len(uses) :
              /\ started[i].name = uses[i].name
              /\ started[i].id = uses[i].id
              /\ content_blocks[started[i].block] = uses[i]
              /\ returned[i].block = started[i].block
              /\ blocks[i].tool_use_id = uses[i].id
              /\ blocks[i].is_error = (returned[i].result.error # None)
              /\ blocks[i].content.kind = "list" =>
                    /\ (returned[i].result.output # None) =>
                          blocks[i].content.items[1].text = returned[i].result.output[1]
                    /\ (returned[i].result.base64_image # None) =>
                          Last(blocks[i].content.items).source.data
                             = returned[i].result.base64_image[1]
              /\ blocks[i].content.kind = "str" =>
                    blocks[i].content.text = returned[i].result.error[1]

\* C2: within a turn the tools run one after another in the order of their
\* ToolUse blocks, none starting before the previous one returned, and the
\* i-th tool-result block of the next user message is the result of the
\* i-th ToolUse block.
C2_SequentialInBlockOrder ==
    /\ OneToolAtATime
    /\ TurnCompleted => ResultsFollowToolUses

\* a completed turn whose two tools gave different results
C2_Witness ==
    /\ TurnCompleted
    /\ Len(Last(messages).content.items) = 2
    /\ Last(messages).content.items[1].is_error = FALSE
    /\ Last(messages).content.items[2].is_error = TRUE

AppendedAssistantTurns ==
    {m \in (init_len + 1)..Len(messages) : messages[m].role = "assistant"}

\* C3: the loop returns exactly at the first model turn without a ToolUse
\* block: on return the last message is that assistant message, every
\* earlier response had a ToolUse, and the history holds one assistant
\* message per provider call with a user message between them; and the loop
\* never goes on to another call after a response without ToolUse.
C3_ReturnsAtFirstTurnWithoutToolUse ==
    /\ pc = "returned" =>
          /\ Last(messages).role = "assistant"
          /\ ToolUses(Last(messages)) = <<>>
          /\ Last(messages).content.items = content_blocks
          /\ Cardinality(AppendedAssistantTurns) = calls
          /\ Len(messages) = init_len + 2 * calls - 1
          /\ \A m \in AppendedAssistantTurns :
                m < Len(messages) => ToolUses(messages[m]) # <<>>
    /\ TurnCompleted =>
          /\ Last(messages).role = "user"
          /\ ToolUses(messages[Len(messages) - 1]) # <<>>

\* the loop returned at its second provider call
C3_Witness ==
    /\ pc = "returned"
    /\ calls = 2
    /\ Len(messages) = init_len + 3

FailedReturns(n) ==
    SelectSeq(trace, LAMBDA e : e.event = "tool_return" /\ e.call = n
                                   /\ e.failure # "none")

\* C4: a tool that is not registered or that raises yields an outcome with
\* error set; the loop appends a tool-result block with is_error = true for
\* that ToolUse id, still dispatches the other ToolUse blocks of the turn
\* and goes on to the next model call; only a provider failure ends the
\* loop with an exception.
C4_ToolFailureDoesNotAbort ==
    /\ \A k \in 1..Len(trace) :
          (trace[k].event = "tool_return" /\ trace[k].failure # "none") =>
              /\ trace[k].result.error # None
              /\ trace[k].result.error # Some("")
              /\ trace[k].result.output = None
              /\ trace[k].result.base64_image = None
    /\ pc = "raised" => Last(trace).event \in {"api_call", "api_response"}
    /\ (pc = "blocks" /\ idx > Len(content_blocks)) =>
          (FailedReturns(calls) # <<>> => tool_result_content # <<>>)
    /\ TurnCompleted =>
          LET uses == ToolUses(messages[Len(messages) - 1])
              blocks == Last(messages).content.items
              returned == EventsOfCall("tool_return", calls)
          IN  /\ Len(blocks) = Len(uses)
              /\ Len(returned) = Len(uses)
              /\ \A i \in 1..Len(uses) :
                    returned[i].failure # "none" =>
                        /\ blocks[i].type = "tool_result"
                        /\ blocks[i].is_error = TRUE
                        /\ blocks[i].tool_use_id = uses[i].id

\* a turn whose first tool failed and whose second tool still ran, completed
C4_Witness ==
    /\ TurnCompleted
    /\ Len(Last(messages).content.items) = 2
    /\ EventsOfCall("tool_return", calls)[1].failure # "none"
    /\ EventsOfCall("tool_return", calls)[2].failure = "none"
    /\ Last(messages).content.items[1].is_error = TRUE

\* C5: the roles of the messages the loop appends alternate, starting with
\* an assistant message right after the initial history, which ends with a
\* user message.
C5_RolesAlternate ==
    /\ messages[init_len].role = "user"
    /\ Len(messages) > init_len => messages[init_len + 1].role = "assistant"
    /\ \A m \in (init_len + 1)..Len(messages) :
          /\ messages[m].role # messages[m - 1].role
          /\ messages[m].role \in {"user", "assistant"}

\* the loop has appended assistant, user and assistant
C5_Witness ==
    /\ Len(messages) >= init_len + 3
    /\ messages[init_len + 2].role = "user"

AppendOnly ==
    /\ Len(messages') >= Len(messages)
    /\ \A m \in 1..Len(messages) : MessageKept(messages[m], messages'[m])

\* C6: across the steps of the loop every message stays at its index with
\* its role and its blocks in order; the only change to an existing message
\* is the removal of image entries from tool-result content lists.
C6_HistoryAppendOnly == [][AppendOnly]_vars

\* the loop went on after the filter took the screenshots of an earlier run
C6_Witness ==
    /\ init_len > 1
    /\ Len(messages) > init_len + 2
    /\ ToolResultImages(SubSeq(messages, 1, init_len)) = <<>>

(***************************************************************************)
(* Properties of the conversion.                                           *)
(***************************************************************************)
ErrorText ==
    IF result.system # None /\ result.system # Some("")
    THEN "<system>" \o result.system[1] \o "</system>\n" \o result.error[1]
    ELSE result.error[1]

ErrorIsSet == result.error # None /\ result.error # Some("")

IsSet(field) == field # None /\ field # Some("")

SystemPrefix == IF IsSet(result.system) THEN "<system>" \o result.system[1] \o "</system>\n" ELSE ""

\* C11: an outcome without error converts to is_error = false and a content
\* list made of one text entry when output is set, carrying the system
\* note once, followed by one image entry when image data is set; the list
\* is empty when neither is set, and the block carries the id passed in.
C11_SuccessContentIsTextThenImage ==
    pc = "convert_done" /\ ~ErrorIsSet =>
        /\ api_tool_result.type = "tool_result"
        /\ api_tool_result.is_error = FALSE
        /\ api_tool_result.tool_use_id = tool_use_id
        /\ api_tool_result.content =
              ListContent(
                  (IF IsSet(result.output)
                   THEN <<[type |-> "text", text |-> SystemPrefix \o result.output[1]]>>
                   ELSE <<>>)
                  \o (IF IsSet(result.base64_image)
                      THEN <<[type |-> "image",
                              source |-> [type |-> "base64", media_type |-> "image/png",
                                          data |-> result.base64_image[1]]]>>
                      ELSE <<>>))
        /\ (result = [NoResult EXCEPT !.output = Some("ok")]) =>
              api_tool_result.content.items = <<[type |-> "text", text |-> "ok"]>>
        /\ (result = NoResult) => api_tool_result.content.items = <<>>

\* an outcome with output, image data and a system note, converted
C11_Witness ==
    /\ pc = "convert_done"
    /\ result = [output |-> Some("ok"), error |-> None,
                 base64_image |-> Some("iVBOR"), system |-> Some("note")]
    /\ Len(api_tool_result.content.items) = 2

(***************************************************************************)
(* Properties of ToolResult.__add__.                                       *)
(***************************************************************************)
BothCarryImage == IsSet(result.base64_image) /\ IsSet(other.base64_image)

\* C12: a + b fails exactly when both a and b carry image data; otherwise
\* it gives a new ToolResult whose image is that of the side carrying one,
\* and a and b are as they were.
C12_AddFailsIffTwoImages ==
    pc = "add_done" =>
        /\ combined.raised <=> BothCarryImage
        /\ ~combined.raised =>
              /\ IsSet(result.base64_image) =>
                    combined.value.base64_image = result.base64_image
              /\ IsSet(other.base64_image) =>
                    combined.value.base64_image = other.base64_image
              /\ (~IsSet(result.base64_image) /\ ~IsSet(other.base64_image)) =>
                    ~IsSet(combined.value.base64_image)
        /\ result \in ToolResults
        /\ other \in OtherResults

\* two results with image data were added and the addition failed
C12_Witness ==
    /\ pc = "add_done"
    /\ combined.raised
    /\ IsSet(result.output)
    /\ IsSet(other.output)

CombinedAsStated(field) ==
    LET a == result[field]
        b == other[field]
        c == combined.value[field]
    IN  /\ (IsSet(a) /\ IsSet(b)) => c = Some(a[1] \o b[1])
        /\ (IsSet(a) /\ ~IsSet(b)) => c = a
        /\ (~IsSet(a) /\ IsSet(b)) => c = b
        /\ (~IsSet(a) /\ ~IsSet(b)) => ~IsSet(c)

\* C13: when at most one of a and b carries image data, each of output,
\* error and system of a + b is the left value followed by the right value
\* when both sides have the field, and the value of the side that has it
\* otherwise; adding a result without fields changes no field that is set.
C13_FieldsConcatenateLeftThenRight ==
    (pc = "add_done" /\ ~BothCarryImage) =>
        /\ ~combined.raised
        /\ \A field \in {"output", "error", "system"} : CombinedAsStated(field)
        /\ result = NoResult => combined.value = other
        /\ other = NoResult =>
              \A field \in {"output", "error", "system", "base64_image"} :
                  IsSet(result[field]) => combined.value[field] = result[field]

\* both sides had output, one side had an image
C13_Witness ==
    /\ pc = "add_done"
    /\ ~combined.raised
    /\ combined.value.output = Some("okmore")
    /\ combined.value.base64_image = Some("R0lGO")
    /\ combined.value.system = Some("note")

(***************************************************************************)
(* Properties of the observers and of the provider requests.               *)
(***************************************************************************)
\* the positions in the trace of the events of one kind of call n
PositionsOf(kinds, n) ==
    {k \in 1..Len(trace) : trace[k].event \in kinds /\ trace[k].call = n}

\* provider call n has returned a response
CallReturned(n) == n < calls \/ (n = calls /\ pc # "raised")

\* C14: in every iteration, for either provider, the raw response goes to
\* the api-response observer exactly once, after the provider call and
\* before any output or tool-result observer call of that iteration.
C14_RawResponseObservedOncePerCall ==
    \A n \in 1..calls :
        CallReturned(n) =>
            LET seen == PositionsOf({"api_response"}, n)
            IN  /\ Cardinality(seen) = 1
                /\ \A k \in seen :
                      /\ \A c \in PositionsOf({"api_call"}, n) : c < k
                      /\ \A o \in PositionsOf({"output", "tool_output"}, n) : k < o

\* what the observers and the tool dispatch see of one block
BlockEvents(block, b) ==
    <<[event |-> "output", block |-> b]>>
    \o (IF block.type = "tool_use"
        THEN <<[event |-> "tool_call", block |-> b, id |-> block.id],
               [event |-> "tool_return", block |-> b],
               [event |-> "tool_output", block |-> b, id |-> block.id]>>
        ELSE <<>>)

RECURSIVE ExpectedEvents(_, _)
ExpectedEvents(blocks, b) ==
    IF b > Len(blocks) THEN <<>>
    ELSE BlockEvents(blocks[b], b) \o ExpectedEvents(blocks, b + 1)

\* an event of the trace without its payload
Shape(e) ==
    IF e.event \in {"tool_call", "tool_output"}
    THEN [event |-> e.event, block |-> e.block, id |-> e.id]
    ELSE [event |-> e.event, block |-> e.block]

\* the observer and tool events of call n, in the order they happened
BlockEventsOfCall(n) ==
    LET events == SelectSeq(trace, LAMBDA e :
                      /\ e.call = n
                      /\ e.event \in {"output", "tool_call", "tool_return",
                                      "tool_output"})
    IN  [k \in 1..Len(events) |-> Shape(events[k])]

\* the response of call n, as the loop appended it to the history
ResponseOfCall(n) == messages[init_len + 2 * n - 1].content.items

\* all blocks of call n have been handled
CallHandled(n) == n < calls \/ (n = calls /\ pc \in {"top", "returned"})

\* C15: the observers follow block order: one output call per block in
\* order; for a ToolUse block the tool-result observer is called once with
\* the block's id, after the block's output call and after its tool has
\* returned, and before the next block's output call; never for a block
\* that is not a ToolUse.
C15_ObserversFollowBlockOrder ==
    \A n \in 1..calls :
        CallReturned(n) =>
            LET seen == BlockEventsOfCall(n)
                expected == ExpectedEvents(ResponseOfCall(n), 1)
            IN  /\ Len(seen) <= Len(expected)
                /\ seen = SubSeq(expected, 1, Len(seen))
                /\ CallHandled(n) => seen = expected

\* a turn with a text block and a ToolUse block after it was handled
C15_Witness ==
    /\ pc = "top"
    /\ calls = 1
    /\ Len(ResponseOfCall(1)) = 2
    /\ ResponseOfCall(1)[1].type = "text"
    /\ ResponseOfCall(1)[2].type = "tool_use"
    /\ Len(BlockEventsOfCall(1)) = 5

\* C16: with an image cap k >= 0 the history sent in every provider call
\* holds fewer than k + 10 images inside tool-result blocks.
C16_ImagesBelowCapPlusThreshold ==
    (only_n_most_recent_images # None /\ calls > 0
        /\ pc \in {"blocks", "tool", "returned", "raised"}) =>
        Len(ToolResultImages(messages))
            < only_n_most_recent_images[1] + MinRemovalThreshold

\* the requests of the run, in order
ApiCalls == SelectSeq(trace, LAMBDA e : e.event = "api_call")

\* C17: every provider call of a run is made with the model identifier,
\* the system prompt and the max-token budget of the first call.
C17_SameRequestParametersEveryCall ==
    LET requests == ApiCalls
    IN  \A k \in 1..Len(requests) :
            /\ requests[k].model = requests[1].model
            /\ requests[k].system = requests[1].system
            /\ requests[k].max_tokens = requests[1].max_tokens

\* C18: when the provider call or the parsing of its response fails, the
\* iteration appends nothing: the history ends with a user message, holds
\* one assistant message and one user message per earlier iteration, and no
\* tool was dispatched and no output or tool-result observer was called for
\* the failed iteration.
C18_FailedCallAppendsNothing ==
    pc = "raised" =>
        /\ Len(messages) = init_len + 2 * (calls - 1)
        /\ Last(messages).role = "user"
        /\ Cardinality(AppendedAssistantTurns) = calls - 1
        /\ calls = 1 => Last(messages).content = StrContent("list files")
        /\ calls > 1 =>
              /\ Last(messages).content.kind = "list"
              /\ \A b \in 1..Len(Last(messages).content.items) :
                    Last(messages).content.items[b].type = "tool_result"
        /\ PositionsOf({"output", "tool_call", "tool_return", "tool_output"},
                       calls) = {}

\* the second provider call failed after a turn with a tool call
C18_Witness ==
    /\ pc = "raised"
    /\ calls = 2
    /\ Len(messages) = init_len + 2
    /\ PositionsOf({"api_response"}, 2) # {}

(***************************************************************************)
(* Properties of the projection and of the schema transform.               *)
(***************************************************************************)
\* the part the claim gives a message: its text blocks joined by newlines,
\* or the string itself
StatedPart(msg) ==
    IF IsList(msg.content) THEN text_content(msg.content) ELSE msg.content.text

\* C19: the Gemini projection drops and reorders nothing: message i of the
\* history yields provider message i, user as user and assistant as model,
\* whose single part is the newline-join of the message's text blocks, or
\* the message's string content.
C19_ProjectionKeepsEveryTurn ==
    pc = "project_done" =>
        /\ Len(gemini_messages) = Len(messages)
        /\ \A i \in 1..Len(messages) :
              /\ gemini_messages[i].role =
                    (IF messages[i].role = "user" THEN "user" ELSE "model")
              /\ gemini_messages[i].parts = <<StatedPart(messages[i])>>

RECURSIVE Transformed(_, _)
\* out is the schema in with integer as number and array as list, and with
\* the required members of every properties dict flagged
Transformed(in, out) ==
    /\ DOMAIN in \subseteq DOMAIN out
    /\ DOMAIN out \subseteq DOMAIN in \cup {"required"}
    /\ \A k \in DOMAIN in :
          CASE k = "type" -> out.type = type_mapping(in.type)
            [] k = "items" -> Transformed(in.items, out.items)
            [] k = "properties" ->
                 /\ DOMAIN out.properties = DOMAIN in.properties
                 /\ \A name \in DOMAIN in.properties :
                       /\ Transformed(in.properties[name], out.properties[name])
                       /\ ("required" \in DOMAIN in /\ name \in in.required.list) =>
                             /\ "required" \in DOMAIN out.properties[name]
                             /\ out.properties[name].required = PyTrue
            [] k = "required" -> out.required \in {in.required, PyTrue}
            [] OTHER -> out[k] = in[k]

\* C20: for every parameter schema, nested objects with their own required
\* lists included, the transform completes without raising, maps integer to
\* number and array to list, leaves other types, flags each property named
\* in its parent's required list, and applied again gives the same result.
C20_SchemaTransformCompletes ==
    pc = "schema_done" =>
        /\ ~converted_parameters.raised
        /\ Transformed(parameters, converted_parameters.value)
        /\ convert_params(converted_parameters.value) = converted_parameters

====
